---- MODULE Spec2Model ----
(***************************************************************************)
(* A model of sysctl-rs (src/src/lib.rs), FreeBSD build                    *)
(* (cfg(not(any(target_os = "macos", target_os = "linux")))): the read     *)
(* path value / value_oid, the generic extractor value_oid_as, the writer  *)
(* set_value, the description fetcher, the scalar decoder and the          *)
(* temperature adapter, against a kernel that holds one parameter.         *)
(*                                                                         *)
(* Specifications.  Spec: value and value_oid_as while the kernel changes  *)
(* the value.  SpecSeq: one process calling set_value and value.  SpecOps: *)
(* one process calling every public function on parameters of several      *)
(* kinds.  SpecConc: set_value and value while other processes write.      *)
(* SpecCodec: the decoders and the tag conversion alone.                   *)
(*                                                                         *)
(* Numbers.  TLC's integers are 32 bits wide, so an integer value of the   *)
(* program (i8 .. u64) is a record [neg, limbs]: a sign and the magnitude  *)
(* as base-65536 digits, least significant first (one base-256 digit for   *)
(* the 1-byte types).  Bytes are 0..255.  Strings are their UTF-8 bytes.   *)
(* A u32 bit field (kind, flags) is the pair <<low 16 bits, high 16 bits>>.*)
(* A format descriptor is a sequence of ASCII characters, each a string    *)
(* of length one ("NUL" is the character of code 0).                       *)
(*                                                                         *)
(* f32.  Temperature.value is kept as the exact quotient mag / base        *)
(* (a pair); the rounding of `as f32` and of the f32 division is not       *)
(* modelled.                                                               *)
(***************************************************************************)
EXTENDS Integers, Sequences, FiniteSets, TLC

VARIABLES
    ktag,        \* kernel: the parameter's type tag, kind & CTLTYPE (0..15)
    kflags,      \* kernel: the other bits of the parameter's kind
    kfmt,        \* kernel: the parameter's format descriptor
    kval,        \* kernel: the parameter's stored bytes
    koid,        \* kernel: the parameter's OID
    kdesc,       \* kernel: the parameter's description, as sent
    nchg,        \* number of kernel-side changes of kval so far
    op,          \* the public function running ("idle" when none)
    pc,          \* the position inside it
    arg,         \* set_value: the CtlValue argument
    tsize,       \* value_oid_as: mem::size_of::<T>()
    oid,         \* local oid (name2oid's result)
    info,        \* local info: CtlInfo (oidfmt's result)
    val_len,     \* value_oid: val_len
    new_val_len, \* value_oid: new_val_len
    val,         \* value_oid: val
    val_enum,    \* value_oid_as: what value_oid(oid) returned
    log,         \* the OS exchanges issued by the running call, in order
    since,       \* the values written since the running call's own write
    result,      \* the running call's outcome
    prev,        \* the set_value call that completed just before this call
    codec        \* the decoders alone: the input and output of one decode

vars == <<ktag, kflags, kfmt, kval, koid, kdesc, nchg, op, pc, arg, tsize,
          oid, info, val_len, new_val_len, val, val_enum, log, since, result,
          prev, codec>>

\* what the kernel publishes about the parameter and never changes
metaVars == <<ktag, kflags, kfmt, koid, kdesc>>
kernelVars == <<metaVars, kval, nchg>>
progVars == <<op, pc, arg, tsize, oid, info, val_len, new_val_len, val,
              val_enum, log, since, result, prev>>

(***************************************************************************)
(* Constants of lib.rs                                                     *)
(***************************************************************************)
CTL_MAXNAME == 24

\* mask for the type
CTLTYPE == 15

CTLTYPE_NODE == 1
CTLTYPE_INT == 2
CTLTYPE_STRING == 3
CTLTYPE_S64 == 4
CTLTYPE_STRUCT == 5
CTLTYPE_UINT == 6
CTLTYPE_LONG == 7
CTLTYPE_ULONG == 8
CTLTYPE_U64 == 9
CTLTYPE_U8 == 10
CTLTYPE_U16 == 11
CTLTYPE_S8 == 12
CTLTYPE_S16 == 13
CTLTYPE_S32 == 14
CTLTYPE_U32 == 15
CTLTYPE_TEMPERATURE == 16

\* a u32 bit field: its low and its high 16 bits
U32(lo, hi) == <<lo, hi>>

CTLFLAG_RD == U32(0, 32768)
CTLFLAG_WR == U32(0, 16384)
CTLFLAG_RW == U32(0, 32768 + 16384)
CTLFLAG_ANYBODY == U32(0, 4096)
CTLFLAG_SECURE == U32(0, 2048)
CTLFLAG_PRISON == U32(0, 1024)
CTLFLAG_DYN == U32(0, 512)
CTLFLAG_SKIP == U32(0, 256)
CTLFLAG_TUN == U32(0, 8)
CTLFLAG_RDTUN == U32(0, 32768 + 8)
CTLFLAG_RWTUN == U32(0, 32768 + 16384 + 8)
CTLFLAG_MPSAFE == U32(0, 4)
CTLFLAG_VNET == U32(0, 2)
CTLFLAG_DYING == U32(0, 1)
CTLFLAG_CAPRD == U32(32768, 0)
CTLFLAG_CAPWR == U32(16384, 0)
CTLFLAG_STATS == U32(8192, 0)
CTLFLAG_NOFETCH == U32(4096, 0)
CTLFLAG_CAPRW == U32(32768 + 16384, 0)
CTLFLAG_SECURE1 == U32(0, 2048)
CTLFLAG_SECURE2 == U32(0, 2048 + 16)
CTLFLAG_SECURE3 == U32(0, 2048 + 32)

\* a & b on 16 bits
RECURSIVE BitAnd(_, _)
BitAnd(a, b) ==
    IF a = 0 \/ b = 0 THEN 0
    ELSE (a % 2) * (b % 2) + 2 * BitAnd(a \div 2, b \div 2)

\* x & y on u32
And32(x, y) == U32(BitAnd(x[1], y[1]), BitAnd(x[2], y[2]))

\* enum CtlType, by discriminant
CtlTypeName ==
    [t \in 1..16 |->
        CASE t = CTLTYPE_NODE -> "Node"
          [] t = CTLTYPE_INT -> "Int"
          [] t = CTLTYPE_STRING -> "String"
          [] t = CTLTYPE_S64 -> "S64"
          [] t = CTLTYPE_STRUCT -> "Struct"
          [] t = CTLTYPE_UINT -> "Uint"
          [] t = CTLTYPE_LONG -> "Long"
          [] t = CTLTYPE_ULONG -> "Ulong"
          [] t = CTLTYPE_U64 -> "U64"
          [] t = CTLTYPE_U8 -> "U8"
          [] t = CTLTYPE_U16 -> "U16"
          [] t = CTLTYPE_S8 -> "S8"
          [] t = CTLTYPE_S16 -> "S16"
          [] t = CTLTYPE_S32 -> "S32"
          [] t = CTLTYPE_U32 -> "U32"
          [] t = CTLTYPE_TEMPERATURE -> "Temperature"]

CtlType == {CtlTypeName[t] : t \in 1..16}

\* impl From<u32> for CtlType: assert!(t >= 1 && t <= 16), then transmute
CtlTypeFromTagPanics(t) == ~(t >= 1 /\ t <= 16)
CtlTypeFromTag(t) == CtlTypeName[t]

(***************************************************************************)
(* Integer values and their little-endian byte layouts                     *)
(***************************************************************************)
LimbBase == 256 * 256

Num(neg, limbs) == [neg |-> neg, limbs |-> limbs]
ZeroNum == Num(FALSE, <<0>>)

\* the modulus of one digit of an n-byte integer
LimbMod(n) == IF n = 1 THEN 256 ELSE LimbBase

\* LittleEndian::read_u16/u32/u64(&val) and val[0]: both panic on a buffer
\* shorter than the width
ReadPanics(v, n) == Len(v) < n

\* the unsigned integer in the first n bytes of v, least significant first
ReadU(v, n) ==
    IF n = 1 THEN <<v[1]>>
    ELSE [i \in 1..(n \div 2) |-> v[2 * i - 1] + 256 * v[2 * i]]

RECURSIVE AddOne(_, _)
AddOne(limbs, m) ==
    IF limbs = <<>> THEN <<>>
    ELSE IF Head(limbs) + 1 < m THEN <<Head(limbs) + 1>> \o Tail(limbs)
    ELSE <<0>> \o AddOne(Tail(limbs), m)

\* 2^(8n) - u, digit by digit: complement, then add one
TwosComplement(limbs, m) ==
    AddOne([i \in 1..Len(limbs) |-> m - 1 - limbs[i]], m)

read_unsigned(v, n) == Num(FALSE, ReadU(v, n))

\* LittleEndian::read_i16/i32/i64 and `val[0] as i8`: two's complement
read_signed(v, n) ==
    LET u == ReadU(v, n)
        m == LimbMod(n)
    IN  IF u[Len(u)] >= m \div 2
        THEN Num(TRUE, TwosComplement(u, m))
        ELSE Num(FALSE, u)

\* the n bytes of an unsigned magnitude, least significant first
WriteU(limbs, n) ==
    IF n = 1 THEN <<limbs[1]>>
    ELSE [i \in 1..n |->
            IF i % 2 = 1 THEN limbs[(i + 1) \div 2] % 256
            ELSE limbs[i \div 2] \div 256]

\* write_i32::<LittleEndian>(v) and its siblings of the other widths
write_le(num, n) ==
    IF num.neg THEN WriteU(TwosComplement(num.limbs, LimbMod(n)), n)
    ELSE WriteU(num.limbs, n)

(***************************************************************************)
(* CtlValue, CtlInfo and Result<_, String>                                 *)
(***************************************************************************)
ScalarTypes == {"Int", "S32", "Uint", "U32", "Long", "Ulong", "U64", "S64",
                "U8", "U16", "S8", "S16"}

\* one shape for every variant: num for the integer variants, bytes for
\* Node, Struct and String, num / base for Temperature
MkValue(variant, num, bytes, base) ==
    [variant |-> variant, num |-> num, bytes |-> bytes, base |-> base]
ScalarValue(variant, num) == MkValue(variant, num, <<>>, 0)
BytesValue(variant, bytes) == MkValue(variant, ZeroNum, bytes, 0)
TemperatureValue(num, base) == MkValue("Temperature", num, <<>>, base)
NoValue == MkValue("none", ZeroNum, <<>>, 0)

\* impl From<&CtlValue> for CtlType
CtlTypeOfValue(v) == v.variant

CtlInfo(ctl_type, fmt, flags) ==
    [ctl_type |-> ctl_type, fmt |-> fmt, flags |-> flags]
NoInfo == CtlInfo("none", <<>>, U32(0, 0))

\* kind: "ok" (Ok(value)), "err" (Err(msg)), "panic" (the call aborts with
\* msg), "boxed" (Ok(Box<T>) of value_oid_as, its bytes in value.bytes)
MkResult(kind, value, msg) == [kind |-> kind, value |-> value, msg |-> msg]
Ok(v) == MkResult("ok", v, "")
Err(msg) == MkResult("err", NoValue, msg)
Panic(msg) == MkResult("panic", NoValue, msg)
NoResult == MkResult("none", NoValue, "")

(***************************************************************************)
(* str::from_utf8: whether a byte sequence is well-formed UTF-8            *)
(***************************************************************************)
Cont(b) == b >= 128 /\ b <= 191

RECURSIVE IsUtf8(_)
IsUtf8(b) ==
    IF b = <<>> THEN TRUE
    ELSE LET h == b[1]
             n == Len(b)
         IN  IF h <= 127 THEN IsUtf8(Tail(b))
             ELSE IF h >= 194 /\ h <= 223
                  THEN n >= 2 /\ Cont(b[2]) /\ IsUtf8(SubSeq(b, 3, n))
             ELSE IF h >= 224 /\ h <= 239
                  THEN /\ n >= 3
                       /\ Cont(b[2]) /\ Cont(b[3])
                       /\ (h = 224 => b[2] >= 160)
                       /\ (h = 237 => b[2] <= 159)
                       /\ IsUtf8(SubSeq(b, 4, n))
             ELSE IF h >= 240 /\ h <= 244
                  THEN /\ n >= 4
                       /\ Cont(b[2]) /\ Cont(b[3]) /\ Cont(b[4])
                       /\ (h = 240 => b[2] >= 144)
                       /\ (h = 244 => b[2] <= 143)
                       /\ IsUtf8(SubSeq(b, 5, n))
             ELSE FALSE

(***************************************************************************)
(* The Scalar Decoder: the `match info.ctl_type` that ends value_oid       *)
(***************************************************************************)
\* the width in bytes that the decode rule of a scalar type reads
Width(ty) ==
    CASE ty \in {"U8", "S8"} -> 1
      [] ty \in {"U16", "S16"} -> 2
      [] ty \in {"Int", "S32", "Uint", "U32"} -> 4
      [] ty \in {"Long", "Ulong", "U64", "S64"} -> 8

\* the types whose decode rule reads a signed integer
SignedRead(ty) == ty \in {"Int", "S32", "Long", "S8", "S16"}

\* every scalar read as unsigned
read_scalar_unsigned(ty, v) == read_unsigned(v, Width(ty))

read_scalar(ty, v) ==
    IF SignedRead(ty) THEN read_signed(v, Width(ty))
    ELSE read_unsigned(v, Width(ty))

\* CtlType::String => str::from_utf8(&val[..val.len() - 1])
decode_string(v) ==
    IF Len(v) = 0 THEN Panic("attempt to subtract with overflow")
    ELSE IF IsUtf8(SubSeq(v, 1, Len(v) - 1))
         THEN Ok(BytesValue("String", SubSeq(v, 1, Len(v) - 1)))
         ELSE Err("Error parsing string")

wrap_in_enum(i, v) ==
    CASE i.ctl_type = "Node" -> Ok(BytesValue("Node", v))
      [] i.ctl_type = "Struct" -> Ok(BytesValue("Struct", v))
      [] i.ctl_type = "String" -> decode_string(v)
      [] i.ctl_type \in ScalarTypes ->
            IF ReadPanics(v, Width(i.ctl_type))
            THEN Panic("index out of range")
            ELSE Ok(ScalarValue(i.ctl_type, read_scalar(i.ctl_type, v)))
      [] OTHER -> Err("No matching type for value")

(***************************************************************************)
(* The Temperature Adapter                                                 *)
(***************************************************************************)
Digits == <<"0", "1", "2", "3", "4", "5", "6", "7", "8", "9">>

\* info.fmt[2..3].parse::<u32>(): the digit's value, or -1 for Err
parse_u32(c) ==
    IF \E d \in 1..10 : Digits[d] = c
    THEN (CHOOSE d \in 1..10 : Digits[d] = c) - 1
    ELSE -1

RECURSIVE Pow10(_)
Pow10(p) == IF p = 0 THEN 1 ELSE 10 * Pow10(p - 1)

\* the precision taken from fmt[1..2], one byte early
prec_second_char(i) ==
    IF Len(i.fmt) > 2
    THEN LET x == parse_u32(i.fmt[2])
         IN  IF x >= 0 /\ x <= 9 THEN x ELSE 1
    ELSE 1

\* let prec: u32 = match info.fmt.len() { l if l > 2 => .., _ => 1 }
prec(i) ==
    IF Len(i.fmt) > 2
    THEN LET x == parse_u32(i.fmt[3])
         IN  IF x >= 0 /\ x <= 9 THEN x ELSE 1
    ELSE 1

\* temperature() without its arm for S64
TemperatureTypesNoS64 == {"Int", "Uint", "Long", "Ulong", "U64", "U8", "U16",
                          "S8", "S16", "S32", "U32"}

\* the declared types temperature() has a rule for
TemperatureTypes == {"Int", "S64", "Uint", "Long", "Ulong", "U64", "U8",
                     "U16", "S8", "S16", "S32", "U32"}

temperature(i, v) ==
    IF i.ctl_type \in TemperatureTypes
    THEN IF ReadPanics(v, Width(i.ctl_type))
         THEN Panic("index out of range")
         ELSE Ok(TemperatureValue(read_scalar(i.ctl_type, v), Pow10(prec(i))))
    ELSE Err("No matching type for value")

\* CtlInfo::is_temperature: &self.fmt[0..2] panics on a descriptor shorter
\* than two bytes
is_temperature_panics(i) == Len(i.fmt) < 2
is_temperature(i) == i.fmt[1] = "I" /\ i.fmt[2] = "K"

\* value_oid after the two exchanges: the length assertion, the temperature
\* dispatch and the scalar decoder
\* value_oid with the length assertion left out
assert_eq_len_dropped(a, b) == TRUE

assert_eq_len(a, b) == a = b

value_oid_tail(i, v, len, new_len) ==
    IF ~assert_eq_len(len, new_len)
    THEN Panic("assertion failed: val_len == new_val_len")
    ELSE IF is_temperature_panics(i) THEN Panic("byte index 2 is out of bounds")
    ELSE IF is_temperature(i) THEN temperature(i, v)
    ELSE wrap_in_enum(i, v)

(***************************************************************************)
(* The state after construction: no call is running                        *)
(***************************************************************************)
NoCall == [op |-> "none", arg |-> NoValue, result |-> NoResult]
NoCodec == [stage |-> "off", ty |-> "none", fmt |-> <<>>, num |-> ZeroNum,
            bytes |-> <<>>, tag |-> 0, out |-> NoResult]

IdleProgram ==
    /\ op = "idle"
    /\ pc = "idle"
    /\ arg = NoValue
    /\ tsize = 0
    /\ oid = <<>>
    /\ info = NoInfo
    /\ val_len = 0
    /\ new_val_len = 0
    /\ val = <<>>
    /\ val_enum = NoResult
    /\ log = <<>>
    /\ since = {}
    /\ result = NoResult
    /\ prev = NoCall

(***************************************************************************)
(* The decoders alone: one input, encoded, then decoded                    *)
(***************************************************************************)
\* enum CtlValue: the size in bytes of each integer variant's payload
\* (Int(i32), S64(u64), Uint(u32), Long(i64), .., S32(i32), U32(u32))
PayloadWidth(ty) ==
    CASE ty \in {"U8", "S8"} -> 1
      [] ty \in {"U16", "S16"} -> 2
      [] ty \in {"Int", "Uint", "S32", "U32"} -> 4
      [] ty \in {"S64", "Long", "Ulong", "U64"} -> 8

\* values of each variant's payload type: zero, small ones, both extremes
Samples(ty) ==
    CASE ty = "U8" -> {Num(FALSE, <<b>>) : b \in {0, 1, 127, 128, 255}}
      [] ty = "S8" -> {Num(FALSE, <<b>>) : b \in {0, 1, 127}}
                        \cup {Num(TRUE, <<b>>) : b \in {1, 127, 128}}
      [] ty = "U16" -> {Num(FALSE, <<l>>) : l \in {0, 1, 255, 256, 32767,
                                                     32768, 65535}}
      [] ty = "S16" -> {Num(FALSE, <<l>>) : l \in {0, 1, 255, 256, 32767}}
                        \cup {Num(TRUE, <<l>>) : l \in {1, 256, 32768}}
      [] ty \in {"Int", "S32"} ->
            {Num(FALSE, l) : l \in {<<0, 0>>, <<1, 0>>, <<3330, 0>>,
                                    <<5320, 5>>, <<65535, 32767>>}}
            \cup {Num(TRUE, l) : l \in {<<1, 0>>, <<3330, 0>>, <<0, 1>>,
                                        <<0, 32768>>}}
      [] ty \in {"Uint", "U32"} ->
            {Num(FALSE, l) : l \in {<<0, 0>>, <<1, 0>>, <<3330, 0>>,
                                    <<0, 32768>>, <<65535, 65535>>}}
      [] ty = "Long" ->
            {Num(FALSE, l) : l \in {<<0, 0, 0, 0>>, <<3330, 0, 0, 0>>,
                                    <<0, 0, 1, 0>>,
                                    <<65535, 65535, 65535, 32767>>}}
            \cup {Num(TRUE, l) : l \in {<<1, 0, 0, 0>>, <<0, 0, 1, 0>>,
                                        <<0, 0, 0, 32768>>}}
      [] ty \in {"Ulong", "U64", "S64"} ->
            {Num(FALSE, l) : l \in {<<0, 0, 0, 0>>, <<3330, 0, 0, 0>>,
                                    <<0, 0, 1, 0>>, <<0, 0, 0, 32768>>,
                                    <<65535, 65535, 65535, 65535>>}}

\* raw byte sequences a String, Node or Struct parameter may hold
RawSamples ==
    {<<>>, <<0>>, <<97, 98, 99, 0>>, <<97, 98, 99>>, <<97, 0, 0>>,
     <<195, 169, 0>>, <<195, 0>>, <<97, 255, 0>>, <<97, 98, 255>>,
     <<97, 195>>, <<1, 2, 3, 4, 5, 6, 7, 8>>}

\* u32 values handed to CtlType::from: every masked tag, the values next
\* to them and large ones
TagSamples == 0..17 \cup {255, 65536, 2147483647}

CodecFmts ==
    {<<>>, <<"I">>, <<"I", "NUL">>, <<"A", "NUL">>, <<"I", "K">>,
     <<"I", "K", "NUL">>, <<"I", "K", "0">>, <<"I", "K", "3">>,
     <<"I", "K", "9">>, <<"I", "K", "x">>, <<"I", "K", "+">>,
     <<"I", "K", "3", "NUL">>, <<"L", "U", "2">>}

InitCodec ==
    /\ ktag = CTLTYPE_INT
    /\ kflags = U32(0, 0)
    /\ kfmt = <<"I", "NUL">>
    /\ kval = <<0, 0, 0, 0>>
    /\ koid = <<1, 7>>
    /\ kdesc = <<0>>
    /\ nchg = 0
    /\ IdleProgram
    /\ \/ \E ty \in ScalarTypes, f \in CodecFmts :
            \E n \in Samples(ty) :
                codec = [stage |-> "value", ty |-> ty, fmt |-> f, num |-> n,
                         bytes |-> <<>>, tag |-> 0, out |-> NoResult]
       \/ \E ty \in {"String", "Node", "Struct"}, b \in RawSamples :
                codec = [stage |-> "raw", ty |-> ty, fmt |-> <<"A", "NUL">>,
                         num |-> ZeroNum, bytes |-> b, tag |-> 0,
                         out |-> NoResult]
       \/ \E t \in TagSamples :
                codec = [stage |-> "tag", ty |-> "none", fmt |-> <<>>,
                         num |-> ZeroNum, bytes |-> <<>>, tag |-> t,
                         out |-> NoResult]

\* the value's fixed little-endian byte layout
CodecEncode ==
    /\ codec.stage = "value"
    /\ codec' = [codec EXCEPT !.stage = "raw",
                              !.bytes = write_le(codec.num,
                                                 PayloadWidth(codec.ty))]
    /\ UNCHANGED <<kernelVars, progVars>>

\* the scalar decoder on the bytes
CodecDecode ==
    /\ codec.stage = "raw"
    /\ codec' = [codec EXCEPT
                    !.stage = "decoded",
                    !.out = wrap_in_enum(
                               CtlInfo(codec.ty, codec.fmt, U32(0, 0)),
                               codec.bytes)]
    /\ UNCHANGED <<kernelVars, progVars>>

\* the temperature adapter on the bytes
CodecTemperature ==
    /\ codec.stage = "raw"
    /\ codec' = [codec EXCEPT
                    !.stage = "temperature",
                    !.out = temperature(
                               CtlInfo(codec.ty, codec.fmt, U32(0, 0)),
                               codec.bytes)]
    /\ UNCHANGED <<kernelVars, progVars>>

\* CtlType::from(t)
CodecFromTag ==
    /\ codec.stage = "tag"
    /\ codec' = [codec EXCEPT
                    !.stage = "converted",
                    !.out = IF CtlTypeFromTagPanics(codec.tag)
                            THEN Panic("assertion failed: t >= 1 && t <= 16")
                            ELSE MkResult("type",
                                          MkValue(CtlTypeFromTag(codec.tag),
                                                  ZeroNum, <<>>, 0), "")]
    /\ UNCHANGED <<kernelVars, progVars>>

NextCodec == CodecEncode \/ CodecDecode \/ CodecTemperature \/ CodecFromTag

SpecCodec == InitCodec /\ [][NextCodec]_vars

(***************************************************************************)
(* The kernel: one parameter, reached by one name and one OID              *)
(***************************************************************************)
MaxChanges == 1

KOid == <<1, 7>>
KFlags == U32(0, 32768 + 16384 + 4)
KDesc == <<56, 0>>
KTags == 0..15
KFmts == {<<>>, <<"NUL">>, <<"I">>, <<"I", "NUL">>, <<"I", "K", "NUL">>,
          <<"I", "K", "3">>}
KVals == {<<>>, <<97, 98, 99>>, <<2, 13, 0, 0>>,
          <<255, 255, 255, 255, 0, 0, 0, 128>>}

\* the return code of one sysctl(3) exchange
OsRet == {0, -1}

Zeros(n) == [i \in 1..n |-> 0]

\* kind, the first 32 bits of the metadata reply: the flags and the type tag
Kind == U32(kflags[1] + ktag, kflags[2])

\* the reply to a name resolution: the parameter's OID in the caller's
\* buffer of CTL_MAXNAME c_ints, and the filled length in bytes
size_of_c_int == 4
name2oid_reply ==
    [res |-> koid \o Zeros(CTL_MAXNAME - Len(koid)),
     len |-> Len(koid) * size_of_c_int]

Init ==
    /\ ktag \in KTags
    /\ kflags = KFlags
    /\ kfmt \in KFmts
    /\ kval \in KVals
    /\ koid = KOid
    /\ kdesc = KDesc
    /\ nchg = 0
    /\ IdleProgram
    /\ codec = NoCodec

\* another process, or the kernel itself, changes the stored value
KernelChange ==
    /\ nchg < MaxChanges
    /\ pc \notin {"idle", "done", "aborted"}
    /\ \E v \in KVals \ {kval} : kval' = v
    /\ nchg' = nchg + 1
    /\ UNCHANGED <<metaVars, progVars, codec>>

(***************************************************************************)
(* The calls                                                               *)
(***************************************************************************)
Exchange(x, ret) == [x |-> x, ret |-> ret, klen |-> Len(kval)]

errno_string == "errno"

\* the running public function ends with r; a panic ends the process
Finish(r) ==
    /\ result' = r
    /\ pc' = IF r.kind = "panic" THEN "aborted" ELSE "done"

\* value_oid returns r: to value_oid_as (let val_enum = try!(value_oid(oid)))
\* or, directly or through value, to the caller
ReturnFromValueOid(r) ==
    IF op \in {"value_oid_as", "value_as"} /\ r.kind # "panic"
    THEN /\ val_enum' = r
         /\ pc' = "extract"
         /\ UNCHANGED result
    ELSE /\ Finish(r)
         /\ UNCHANGED val_enum

Start(o, p, a, t, id) ==
    /\ pc = "idle"
    /\ op' = o
    /\ pc' = p
    /\ arg' = a
    /\ tsize' = t
    /\ oid' = id
    /\ info' = NoInfo
    /\ val_len' = 0
    /\ new_val_len' = 0
    /\ val' = <<>>
    /\ val_enum' = NoResult
    /\ log' = <<>>
    /\ since' = {}
    /\ result' = NoResult
    /\ UNCHANGED <<prev, kernelVars, codec>>

\* value(name)
CallValue == Start("value", "name2oid", NoValue, 0, <<>>)

\* value_oid(&oid)
CallValueOid == Start("value_oid", "oidfmt", NoValue, 0, koid)

\* value_oid_as::<T>(&oid), size_of::<T>() = t
TSizes == {4, 8}
CallValueOidAs(t) == Start("value_oid_as", "oidfmt", NoValue, t, koid)

\* value_as::<T>(name)
CallValueAs(t) == Start("value_as", "name2oid", NoValue, t, <<>>)

\* description(name)
CallDescription == Start("description", "d_name2oid", NoValue, 0, <<>>)

\* set_value(name, a)
SetArgs ==
    {ScalarValue("Int", Num(FALSE, <<3330, 0>>)),
     ScalarValue("Int", Num(TRUE, <<1, 0>>)),
     ScalarValue("Int", Num(TRUE, <<0, 32768>>)),
     ScalarValue("Uint", Num(FALSE, <<1, 0>>)),
     ScalarValue("S32", Num(TRUE, <<1, 0>>)),
     ScalarValue("U8", Num(FALSE, <<1>>)),
     BytesValue("Struct", <<1, 0, 0, 0>>),
     BytesValue("String", <<97>>)}
CallSetValue(a) == Start("set_value", "sv_name2oid", a, 0, <<>>)

\* Vec::truncate(len): no effect when len is not below the length
truncate(v, len) == IF len < Len(v) THEN SubSeq(v, 1, len) ELSE v

\* name2oid with the result vector left untrimmed
name2oid_untrimmed(res, len) == res

\* name2oid: len /= mem::size_of::<c_int>(); res.truncate(len)
name2oid_trim(res, len) == truncate(res, len \div size_of_c_int)

\* name2oid(name): one exchange; ret < 0 is an error
Name2oid ==
    /\ pc \in {"name2oid", "sv_name2oid", "d_name2oid"}
    /\ \E ret \in OsRet :
        /\ log' = Append(log, Exchange("name2oid", ret))
        /\ IF ret < 0
           THEN /\ Finish(Err(errno_string))
                /\ UNCHANGED oid
           ELSE /\ oid' = name2oid_trim(name2oid_reply.res, name2oid_reply.len)
                /\ pc' = CASE pc = "name2oid" -> "oidfmt"
                            [] pc = "sv_name2oid" -> "sv_oidfmt"
                            [] pc = "d_name2oid" -> "d_describe"
                /\ UNCHANGED result
    /\ UNCHANGED <<op, arg, tsize, info, val_len, new_val_len, val, val_enum,
                   since, prev, kernelVars, codec>>

\* oidfmt: let ctltype_val = kind & CTLTYPE as u32
ctltype_val(kind) == And32(kind, U32(CTLTYPE, 0))[1]

\* oidfmt keeping only the type bits in flags
info_flags_type_bits(kind) == And32(kind, U32(CTLTYPE, 0))

\* oidfmt: flags: kind
info_flags(kind) == kind

\* oidfmt(&oid): one exchange; ret != 0 is an error; CtlType::from(kind & 0xf)
Oidfmt ==
    /\ pc \in {"oidfmt", "sv_oidfmt"}
    /\ \E ret \in OsRet :
        /\ log' = Append(log, Exchange("oidfmt", ret))
        /\ IF ret # 0
           THEN /\ IF pc = "oidfmt" THEN ReturnFromValueOid(Err(errno_string))
                   ELSE Finish(Err(errno_string)) /\ UNCHANGED val_enum
                /\ UNCHANGED info
           ELSE IF CtlTypeFromTagPanics(ctltype_val(Kind))
           THEN /\ Finish(Panic("assertion failed: t >= 1 && t <= 16"))
                /\ UNCHANGED <<info, val_enum>>
           ELSE /\ info' = CtlInfo(CtlTypeFromTag(ctltype_val(Kind)), kfmt,
                                   info_flags(Kind))
                /\ pc' = IF pc = "oidfmt" THEN "probe" ELSE "sv_typecheck"
                /\ UNCHANGED <<result, val_enum>>
    /\ UNCHANGED <<op, arg, tsize, oid, val_len, new_val_len, val, since,
                   prev, kernelVars, codec>>

\* value_oid, first exchange: null destination, the kernel reports the length
SizeProbe ==
    /\ pc = "probe"
    /\ \E ret \in OsRet :
        /\ log' = Append(log, Exchange("probe", ret))
        /\ IF ret < 0
           THEN /\ ReturnFromValueOid(Err(errno_string))
                /\ UNCHANGED val_len
           ELSE /\ val_len' = Len(kval)
                /\ pc' = "fetch"
                /\ UNCHANGED <<result, val_enum>>
    /\ UNCHANGED <<op, arg, tsize, oid, info, new_val_len, val, since, prev,
                   kernelVars, codec>>

\* value_oid, second exchange into vec![0; val_len], and the rest of
\* value_oid.  A value longer than the buffer fails with ENOMEM.
DataFetch ==
    /\ pc = "fetch"
    /\ \E ret \in OsRet :
        /\ (Len(kval) > val_len) => ret < 0
        /\ log' = Append(log, Exchange("fetch", ret))
        /\ IF ret < 0
           THEN /\ val' = IF Len(kval) > val_len
                            THEN SubSeq(kval, 1, val_len)
                            ELSE Zeros(val_len)
                /\ new_val_len' = val_len
                /\ ReturnFromValueOid(Err(errno_string))
           ELSE /\ val' = kval \o Zeros(val_len - Len(kval))
                /\ new_val_len' = Len(kval)
                /\ ReturnFromValueOid(
                       value_oid_tail(info, val', val_len, new_val_len'))
    /\ UNCHANGED <<op, arg, tsize, oid, info, val_len, since, prev,
                   kernelVars, codec>>

\* set_value with the type assertion left out
type_check_dropped(declared, given) == TRUE

\* set_value: assert_eq!(info.ctl_type, CtlType::from(&value))
type_check(declared, given) == declared = given

\* set_value serializing and writing whatever the variant
has_serialization_any(v) == TRUE

\* set_value: if let CtlValue::Int(v) = value
has_serialization(v) == v.variant = "Int"

\* set_value continuing with the OID and the metadata it already has
confirm_read_cached == "probe"

\* set_value: self::value(name) begins with name2oid(name)
confirm_read == "name2oid"

TypeCheck ==
    /\ pc = "sv_typecheck"
    /\ IF ~type_check(info.ctl_type, CtlTypeOfValue(arg))
       THEN Finish(Panic("Error type mismatch"))
       ELSE /\ pc' = IF has_serialization(arg) THEN "sv_write"
                     ELSE confirm_read
            /\ UNCHANGED result
    /\ UNCHANGED <<op, arg, tsize, oid, info, val_len, new_val_len, val,
                   val_enum, log, since, prev, kernelVars, codec>>

RECURSIVE Reverse(_)
Reverse(q) == IF q = <<>> THEN <<>> ELSE Reverse(Tail(q)) \o <<Head(q)>>

\* the value written most significant byte first
set_value_bytes_big_endian(v) == Reverse(write_le(v.num, 4))

\* set_value: bytes.write_i32::<LittleEndian>(v)
set_value_bytes(v) == write_le(v.num, 4)

\* the bytes handed over as the destination: the kernel stores nothing
write_exchange_as_destination(old, bytes) == old

\* sysctl(oid, len, null, null, bytes, bytes.len()): the stored value after a
\* write exchange with null destination and bytes as source
write_exchange(old, bytes) == bytes

\* set_value going on after a failed write
write_failure_ignored(ret) == FALSE

\* set_value: if ret < 0 { return Err(errno_string()); }
write_failed(ret) == ret < 0

\* set_value: the write exchange, then self::value(name)
Write ==
    /\ pc = "sv_write"
    /\ \E ret \in OsRet :
        /\ log' = Append(log, Exchange("write", ret))
        /\ IF write_failed(ret)
           THEN /\ Finish(Err(errno_string))
                /\ UNCHANGED <<kval, since>>
           ELSE /\ kval' = IF ret < 0 THEN kval
                            ELSE write_exchange(kval, set_value_bytes(arg))
                /\ since' = {set_value_bytes(arg)}
                /\ pc' = confirm_read
                /\ UNCHANGED result
    /\ UNCHANGED <<op, arg, tsize, oid, info, val_len, new_val_len, val,
                   val_enum, prev, metaVars, nchg, codec>>

\* value_oid_as without its Node arm, and with an arm for String
is_extractable_struct_only(variant) == variant = "Struct"
is_extractable_or_string(variant) == variant \in {"Struct", "Node", "String"}

\* value_oid_as: the variants `if let` accepts
is_extractable(variant) == variant \in {"Struct", "Node"}

\* value_oid_as with the size assertion left out
size_check_dropped(size, len) == TRUE

\* value_oid_as: assert_eq!(mem::size_of::<T>(), val.len())
size_check(size, len) == size = len

\* value_oid_as: try!, the variant match and the size assertion
Extract ==
    /\ pc = "extract"
    /\ IF val_enum.kind = "err" THEN Finish(val_enum)
       ELSE IF ~is_extractable(val_enum.value.variant)
       THEN Finish(Err("Error extracting value"))
       ELSE IF ~size_check(tsize, Len(val_enum.value.bytes))
       THEN Finish(Panic("Error memory size mismatch"))
       ELSE /\ pc' = "reinterpret"
            /\ UNCHANGED result
    /\ UNCHANGED <<op, arg, tsize, oid, info, val_len, new_val_len, val,
                   val_enum, log, since, prev, kernelVars, codec>>

\* value_oid_as: into_boxed_slice, Box::into_raw as *mut T, Box::from_raw:
\* the bytes of the Box<T> are the buffer itself
box_from_raw(bytes) == MkResult("boxed", BytesValue("Box", bytes), "")

Reinterpret ==
    /\ pc = "reinterpret"
    /\ Finish(box_from_raw(val_enum.value.bytes))
    /\ UNCHANGED <<op, arg, tsize, oid, info, val_len, new_val_len, val,
                   val_enum, log, since, prev, kernelVars, codec>>

\* description: str::from_utf8(&buf[..buf_len - 1])
decode_description(buf) ==
    IF Len(buf) = 0 THEN Panic("attempt to subtract with overflow")
    ELSE IF IsUtf8(SubSeq(buf, 1, Len(buf) - 1))
         THEN MkResult("text",
                       BytesValue("String", SubSeq(buf, 1, Len(buf) - 1)), "")
         ELSE Err("invalid utf-8 sequence")

\* description: one exchange; ret != 0 is an error
Describe ==
    /\ pc = "d_describe"
    /\ \E ret \in OsRet :
        /\ log' = Append(log, Exchange("describe", ret))
        /\ IF ret # 0 THEN Finish(Err(errno_string))
           ELSE Finish(decode_description(kdesc))
    /\ UNCHANGED <<op, arg, tsize, oid, info, val_len, new_val_len, val,
                   val_enum, since, prev, kernelVars, codec>>

\* the call returns to its caller, which may call again
Return ==
    /\ pc = "done"
    /\ prev' = IF op = "set_value"
               THEN [op |-> op, arg |-> arg, result |-> result]
               ELSE NoCall
    /\ op' = "idle"
    /\ pc' = "idle"
    /\ arg' = NoValue
    /\ tsize' = 0
    /\ oid' = <<>>
    /\ info' = NoInfo
    /\ val_len' = 0
    /\ new_val_len' = 0
    /\ val' = <<>>
    /\ val_enum' = NoResult
    /\ log' = <<>>
    /\ since' = {}
    /\ result' = NoResult
    /\ UNCHANGED <<kernelVars, codec>>

\* readers, with the kernel changing the value under them
Next ==
    \/ CallValue
    \/ \E t \in TSizes : CallValueOidAs(t)
    \/ Name2oid
    \/ Oidfmt
    \/ SizeProbe
    \/ DataFetch
    \/ Extract
    \/ Reinterpret
    \/ Return
    \/ KernelChange

Spec == Init /\ [][Next]_vars

\* one process, writing and reading, and no other writer
NextSeq ==
    \/ CallValue
    \/ \E a \in SetArgs : CallSetValue(a)
    \/ Name2oid
    \/ Oidfmt
    \/ TypeCheck
    \/ Write
    \/ SizeProbe
    \/ DataFetch
    \/ Return

SpecSeq == Init /\ [][NextSeq]_vars

\* parameters of several kinds, OIDs and descriptions
OpsTags == {0, CTLTYPE_NODE, CTLTYPE_INT, CTLTYPE_STRING, CTLTYPE_U32}
OpsFlags == {U32(0, 0), U32(0, 32768 + 4), U32(32768, 32768 + 16384 + 8),
             U32(65520, 65535)}
OpsOids == {<<1>>, <<1, 7>>, <<1, 14, 1>>, [i \in 1..CTL_MAXNAME |-> i]}
OpsDescs == {<<0>>, <<56, 0>>}
OpsVals == {<<2, 13, 0, 0>>, <<97, 98, 99, 0>>}

InitOps ==
    /\ ktag \in OpsTags
    /\ kflags \in OpsFlags
    /\ kfmt = <<"I", "NUL">>
    /\ kval \in OpsVals
    /\ koid \in OpsOids
    /\ kdesc \in OpsDescs
    /\ nchg = 0
    /\ IdleProgram
    /\ codec = NoCodec

\* one process calling every public function, and no other writer
NextOps ==
    \/ CallValue
    \/ CallValueOid
    \/ \E t \in TSizes : CallValueAs(t)
    \/ \E t \in TSizes : CallValueOidAs(t)
    \/ \E a \in SetArgs : CallSetValue(a)
    \/ CallDescription
    \/ Name2oid
    \/ Oidfmt
    \/ TypeCheck
    \/ Write
    \/ SizeProbe
    \/ DataFetch
    \/ Extract
    \/ Reinterpret
    \/ Describe
    \/ Return

SpecOps == InitOps /\ [][NextOps]_vars

(***************************************************************************)
(* Several processes on one Int parameter.  One process is followed step   *)
(* by step.  The others run the same code: of the steps of their           *)
(* set_value(name, Int(..)) and value(name) calls only the write exchange  *)
(* touches the kernel, so each of them appears as the write exchanges it   *)
(* issues, applied atomically at any moment between two steps of the       *)
(* process followed.                                                       *)
(***************************************************************************)
MaxPeerWrites == 2

ConcFmts == {<<"I", "NUL">>, <<"I", "K", "NUL">>}
ConcVals == {<<0, 0, 0, 0>>, <<2, 13, 0, 0>>}

InitConc ==
    /\ ktag = CTLTYPE_INT
    /\ kflags = KFlags
    /\ kfmt \in ConcFmts
    /\ kval \in ConcVals
    /\ koid = KOid
    /\ kdesc = KDesc
    /\ nchg = 0
    /\ IdleProgram
    /\ codec = NoCodec

\* the write exchange of another process's set_value(name, Int(..)), which
\* has passed that process's type check
PeerWrite(a) ==
    /\ nchg < MaxPeerWrites
    /\ has_serialization(a)
    /\ type_check(CtlTypeFromTag(ctltype_val(Kind)), CtlTypeOfValue(a))
    /\ kval' = write_exchange(kval, set_value_bytes(a))
    /\ nchg' = nchg + 1
    /\ since' = IF since = {} THEN {} ELSE since \cup {set_value_bytes(a)}
    /\ UNCHANGED <<metaVars, op, pc, arg, tsize, oid, info, val_len,
                   new_val_len, val, val_enum, log, result, prev, codec>>

NextConc ==
    \/ CallValue
    \/ \E a \in SetArgs : CallSetValue(a)
    \/ Name2oid
    \/ Oidfmt
    \/ TypeCheck
    \/ Write
    \/ SizeProbe
    \/ DataFetch
    \/ Return
    \/ \E a \in SetArgs : PeerWrite(a)

SpecConc == InitConc /\ [][NextConc]_vars

(***************************************************************************)
(* Properties                                                              *)
(***************************************************************************)
\* the exchanges of kind x that the running call has issued
Exchanges(x) == SelectSeq(log, LAMBDA e : e.x = x)

\* value_oid has returned Ok(value) to its caller
ReadReturnedValue ==
    \/ op \in {"value", "set_value"} /\ pc = "done" /\ result.kind = "ok"
    \/ op = "value_oid_as" /\ val_enum.kind = "ok"

\* value_oid has ended without a value: an abort, or an error returned
ReadFailed ==
    \/ pc = "aborted" /\ result.kind = "panic"
    \/ op \in {"value", "set_value"} /\ pc = "done" /\ result.kind = "err"
    \/ op = "value_oid_as" /\ val_enum.kind = "err"

BeginsWithIK(f) == Len(f) >= 2 /\ f[1] = "I" /\ f[2] = "K"

\* C1: while the kernel may change the parameter's size between the size
\* probe and the data fetch, a read returns a value only when the length the
\* kernel held at the fetch equals the length the probe reported (and the
\* bytes returned have that length); when the two lengths differ the read
\* ends without a value, by an abort or an OS error; and a call issues at
\* most one probe and one fetch: nothing is retried.
C1_LengthChecked ==
    LET p == Exchanges("probe")
        f == Exchanges("fetch")
    IN  /\ Len(p) <= 1
        /\ Len(f) <= 1
        /\ ReadReturnedValue =>
              /\ Len(f) = 1
              /\ f[1].klen = p[1].klen
              /\ new_val_len = val_len
              /\ Len(val) = p[1].klen
        /\ (Len(f) = 1 /\ f[1].klen # p[1].klen) => ReadFailed

\* C1, reached: the value shrank between the probe and the fetch, and the
\* read aborted on the length assertion
C1_Witness ==
    /\ op = "value"
    /\ pc = "aborted"
    /\ Len(Exchanges("fetch")) = 1
    /\ Exchanges("fetch")[1].ret = 0
    /\ Exchanges("fetch")[1].klen < Exchanges("probe")[1].klen


\* C2: for every scalar CtlType and every value of its payload type, decoding
\* the value's little-endian bytes with the scalar decoder returns Ok of the
\* variant of that type holding the same value, sign and magnitude (Int and
\* S32 read 4 bytes signed, Uint and U32 4 bytes unsigned, Long 8 bytes
\* signed, Ulong, U64 and S64 8 bytes unsigned, U8 and S8 1 byte, U16 and S16
\* 2 bytes).
C2_ScalarRoundTrip ==
    (codec.stage = "decoded" /\ codec.ty \in ScalarTypes) =>
        /\ codec.out.kind = "ok"
        /\ codec.out.value.variant = codec.ty
        /\ codec.out.value.num = codec.num
        /\ codec.out.value = ScalarValue(codec.ty, codec.num)

\* C2, reached: the most negative 64-bit value went through a Long
C2_Witness ==
    /\ codec.stage = "decoded"
    /\ codec.ty = "Long"
    /\ codec.num = Num(TRUE, <<0, 0, 0, 32768>>)
    /\ codec.bytes = <<0, 0, 0, 0, 0, 0, 0, 128>>
    /\ codec.out.kind = "ok"

\* C3: the decoded String is the raw bytes less one trailing NUL and nothing
\* else (the string followed by one NUL is the raw sequence), and raw bytes
\* that are not valid UTF-8 give an error.
C3_StringStripsOneNul ==
    (codec.stage = "decoded" /\ codec.ty = "String") =>
        /\ codec.out.kind = "ok" =>
              codec.bytes = codec.out.value.bytes \o <<0>>
        /\ ~IsUtf8(codec.bytes) => codec.out.kind = "err"

\* the value of a decimal digit character
DigitValue(c) ==
    CASE c = "0" -> 0 [] c = "1" -> 1 [] c = "2" -> 2 [] c = "3" -> 3
      [] c = "4" -> 4 [] c = "5" -> 5 [] c = "6" -> 6 [] c = "7" -> 7
      [] c = "8" -> 8 [] c = "9" -> 9 [] OTHER -> -1

\* the precision the descriptor f states: its third character when that is
\* a digit, and 1 otherwise
StatedPrecision(f) ==
    IF Len(f) >= 3 /\ DigitValue(f[3]) >= 0 THEN DigitValue(f[3]) ELSE 1

TenTo(p) ==
    CASE p = 0 -> 1 [] p = 1 -> 10 [] p = 2 -> 100 [] p = 3 -> 1000
      [] p = 4 -> 10000 [] p = 5 -> 100000 [] p = 6 -> 1000000
      [] p = 7 -> 10000000 [] p = 8 -> 100000000 [] p = 9 -> 1000000000

\* a 32-bit value of magnitude below 2^31 as an integer
SmallInt(n) ==
    (IF n.neg THEN -1 ELSE 1) * (n.limbs[1] + LimbBase * n.limbs[2])

\* C10: the temperature adapter divides the magnitude by ten to the stated
\* precision: every result it gives is a Temperature whose magnitude is the
\* integer read and whose divisor is 10^precision; it gives one for every
\* Int; format "IK" with 3330 and format "IK3" with 333000 are both 333 K.
C10_TemperaturePrecision ==
    (codec.stage = "temperature" /\ codec.ty \in ScalarTypes) =>
        /\ codec.ty = "Int" => codec.out.kind = "ok"
        /\ codec.out.kind = "ok" =>
              /\ codec.out.value.variant = "Temperature"
              /\ codec.out.value.num = codec.num
              /\ codec.out.value.base = TenTo(StatedPrecision(codec.fmt))
        /\ ( /\ codec.ty = "Int"
             /\ \/ codec.fmt = <<"I", "K">>
                   /\ codec.num = Num(FALSE, <<3330, 0>>)
                \/ codec.fmt = <<"I", "K", "3">>
                   /\ codec.num = Num(FALSE, <<5320, 5>>) ) =>
              SmallInt(codec.out.value.num) = 333 * codec.out.value.base

\* C10, reached: "IK3" and 333000 gave 333000 / 1000
C10_Witness ==
    /\ codec.stage = "temperature"
    /\ codec.ty = "Int"
    /\ codec.fmt = <<"I", "K", "3">>
    /\ codec.bytes = <<200, 20, 5, 0>>
    /\ codec.out = Ok(TemperatureValue(Num(FALSE, <<5320, 5>>), 1000))


\* C4: a read whose two exchanges succeeded with equal lengths goes to the
\* temperature adapter exactly when the descriptor begins with "IK",
\* whatever the declared type and whatever the descriptor's length, and is
\* decoded by its declared type for every other descriptor.
C4_DispatchByPrefix ==
    ( /\ op = "value"
      /\ pc \in {"done", "aborted"}
      /\ Len(log) > 0
      /\ log[Len(log)].x = "fetch"
      /\ log[Len(log)].ret = 0
      /\ new_val_len = val_len ) =>
        result = IF BeginsWithIK(info.fmt) THEN temperature(info, val)
                 ELSE wrap_in_enum(info, val)

\* value_oid_as has ended, value_oid having returned Ok of a Node or Struct
ExtractedFromBytes ==
    /\ op = "value_oid_as"
    /\ pc \in {"done", "aborted"}
    /\ val_enum.kind = "ok"
    /\ val_enum.value.variant \in {"Node", "Struct"}

\* C7: value_oid_as reinterprets the bytes only after their length was found
\* equal to the size of the target layout: it is at the reinterpretation, or
\* has returned a typed value, only with bytes of exactly that size, the
\* typed value holding all of them; with any other length the call aborts.
C7_SizeCheckedFirst ==
    /\ (op = "value_oid_as" /\ pc = "reinterpret") =>
          /\ val_enum.kind = "ok"
          /\ Len(val_enum.value.bytes) = tsize
    /\ (op = "value_oid_as" /\ result.kind = "boxed") =>
          /\ Len(val_enum.value.bytes) = tsize
          /\ Len(result.value.bytes) = tsize
    /\ (ExtractedFromBytes /\ Len(val_enum.value.bytes) # tsize) =>
          /\ pc = "aborted"
          /\ result.kind = "panic"

\* C7, reached: a Struct of 4 bytes asked for as a layout of 8 bytes
C7_Witness ==
    /\ ExtractedFromBytes
    /\ val_enum.value.variant = "Struct"
    /\ Len(val_enum.value.bytes) = 4
    /\ tsize = 8
    /\ pc = "aborted"

\* C8: when the read yields a Node or a Struct of L bytes and the target
\* layout has size L, value_oid_as returns the typed value, and its bytes are
\* the bytes the kernel returned, all of them and in the same order.
C8_ExtractionKeepsBytes ==
    (ExtractedFromBytes /\ Len(val_enum.value.bytes) = tsize) =>
        /\ pc = "done"
        /\ result.kind = "boxed"
        /\ result.value.bytes = val
        /\ Len(val) = Exchanges("fetch")[1].klen

\* C8, reached: a Node of 8 bytes extracted as a layout of 8 bytes
C8_Witness ==
    /\ ExtractedFromBytes
    /\ val_enum.value.variant = "Node"
    /\ tsize = 8
    /\ result.kind = "boxed"
    /\ result.value.bytes = <<255, 255, 255, 255, 0, 0, 0, 128>>

\* C9: value_oid_as returns a typed value only for a Node or a Struct; for
\* every other variant it returns the extraction error, whatever the length
\* of the value (no size check, no reinterpretation); an error of the read
\* is returned as it is.
C9_OnlyNodeOrStruct ==
    op = "value_oid_as" =>
        /\ (result.kind = "boxed" \/ pc = "reinterpret") =>
              /\ val_enum.kind = "ok"
              /\ val_enum.value.variant \in {"Node", "Struct"}
        /\ ( /\ pc \in {"done", "aborted"}
             /\ val_enum.kind = "ok"
             /\ val_enum.value.variant \notin {"Node", "Struct"} ) =>
              /\ pc = "done"
              /\ result = Err("Error extracting value")
        /\ (pc \in {"done", "aborted"} /\ val_enum.kind = "err") =>
              /\ pc = "done"
              /\ result = val_enum

\* C9, reached: a String of 2 characters asked for as a layout of 4 bytes
C9_Witness ==
    /\ op = "value_oid_as"
    /\ pc = "done"
    /\ val_enum.kind = "ok"
    /\ val_enum.value.variant = "String"
    /\ Len(val_enum.value.bytes) # tsize
    /\ result = Err("Error extracting value")


\* set_value(name, Int(V)) has returned Ok
SetIntSucceeded ==
    /\ op = "set_value"
    /\ pc = "done"
    /\ arg.variant = "Int"
    /\ result.kind = "ok"

\* value(name) has returned Ok, right after a set_value(name, Int(V)) that
\* returned Ok
ReadAfterSetInt ==
    /\ op = "value"
    /\ pc = "done"
    /\ result.kind = "ok"
    /\ prev.op = "set_value"
    /\ prev.arg.variant = "Int"
    /\ prev.result.kind = "ok"

\* C5, as claimed: with no other writer, for a parameter declared Int,
\* whatever its format descriptor, a set_value(name, Int(V)) that succeeds
\* returns Int(V), and so does the value(name) that follows it.
C5_RoundTripAnyFormat ==
    /\ SetIntSucceeded => result.value = arg
    /\ ReadAfterSetInt =>
          /\ prev.result.value = prev.arg
          /\ result.value = prev.arg

\* C5, amended: the same for a parameter declared Int whose format
\* descriptor does not begin with "IK".
C5_RoundTrip ==
    ~BeginsWithIK(kfmt) =>
        /\ SetIntSucceeded => result.value = arg
        /\ ReadAfterSetInt =>
              /\ prev.result.value = prev.arg
              /\ result.value = prev.arg

\* C5, reached: -2^31 written, returned by set_value and read back
C5_Witness ==
    /\ ReadAfterSetInt
    /\ ~BeginsWithIK(kfmt)
    /\ prev.arg = ScalarValue("Int", Num(TRUE, <<0, 32768>>))
    /\ prev.result.value = prev.arg
    /\ result.value = prev.arg
    /\ kval = <<0, 0, 0, 128>>

\* set_value is at its type check with a value of another type than declared
TypeMismatch ==
    /\ op = "set_value"
    /\ pc = "sv_typecheck"
    /\ info.ctl_type # CtlTypeOfValue(arg)

\* C6: a set_value whose value is of another type than the declared one
\* aborts at the type check: that step leaves the stored value and the
\* exchanges issued as they were, the call has then issued no write, no size
\* probe and no data fetch, and takes no further step.
C6_TypeMismatchFatal ==
    /\ [][TypeMismatch =>
            /\ pc' = "aborted"
            /\ result'.kind = "panic"
            /\ kval' = kval
            /\ log' = log]_vars
    /\ [][~(op = "set_value" /\ pc = "aborted")]_vars
    /\ [](op = "set_value" /\ result = Panic("Error type mismatch") =>
            /\ Len(Exchanges("write")) = 0
            /\ Len(Exchanges("probe")) = 0
            /\ Len(Exchanges("fetch")) = 0)

\* C6, reached: Int(3330) given for a parameter declared String
C6_Witness ==
    /\ op = "set_value"
    /\ pc = "aborted"
    /\ result = Panic("Error type mismatch")
    /\ info.ctl_type = "String"
    /\ arg = ScalarValue("Int", Num(FALSE, <<3330, 0>>))
    /\ kval = <<97, 98, 99>>


\* the number an enumeration variant carries (`as u32`)
Discriminant(ty) == CHOOSE t \in 1..16 : CtlTypeName[t] = ty

CtlFlags ==
    {CTLFLAG_RD, CTLFLAG_WR, CTLFLAG_RW, CTLFLAG_ANYBODY, CTLFLAG_SECURE,
     CTLFLAG_PRISON, CTLFLAG_DYN, CTLFLAG_SKIP, CTLFLAG_TUN, CTLFLAG_RDTUN,
     CTLFLAG_RWTUN, CTLFLAG_MPSAFE, CTLFLAG_VNET, CTLFLAG_DYING,
     CTLFLAG_CAPRD, CTLFLAG_CAPWR, CTLFLAG_STATS, CTLFLAG_NOFETCH,
     CTLFLAG_CAPRW, CTLFLAG_SECURE1, CTLFLAG_SECURE2, CTLFLAG_SECURE3}

\* oidfmt has just returned Ok(info) to value_oid or to set_value
OidfmtReturned == pc \in {"probe", "sv_typecheck"}

\* C12: every CtlInfo the metadata exchange yields has the type whose number
\* is the low 4 bits of kind and keeps every flag bit of kind (flags & F =
\* kind & F for each flag constant F): a node-kind parameter reports Node, a
\* string-kind one String, and a read-only parameter has CTLFLAG_RD set and
\* CTLFLAG_WR clear.
C12_TypeAndFlags ==
    (info # NoInfo /\ OidfmtReturned) =>
        /\ info.ctl_type \in CtlType
        /\ Discriminant(info.ctl_type) = Kind[1] % 16
        /\ \A F \in CtlFlags : And32(info.flags, F) = And32(Kind, F)
        /\ ktag = CTLTYPE_NODE => info.ctl_type = "Node"
        /\ ktag = CTLTYPE_STRING => info.ctl_type = "String"
        /\ (kflags[2] >= 32768 /\ kflags[2] < 32768 + 16384) =>
              /\ And32(info.flags, CTLFLAG_RD) = CTLFLAG_RD
              /\ And32(info.flags, CTLFLAG_WR) = U32(0, 0)

\* C12, reached: a read-only String parameter, flags RD and MPSAFE
C12_Witness ==
    /\ OidfmtReturned
    /\ info = CtlInfo("String", kfmt, U32(CTLTYPE_STRING, 32768 + 4))
    /\ kflags = U32(0, 32768 + 4)
    /\ And32(info.flags, CTLFLAG_RD) = CTLFLAG_RD
    /\ And32(info.flags, CTLFLAG_WR) = U32(0, 0)
    /\ And32(info.flags, CTLFLAG_MPSAFE) = CTLFLAG_MPSAFE

\* value(name) has ended after both exchanges of value_oid succeeded with
\* equal lengths, on a descriptor of two characters or more
ReadDecoded ==
    /\ op = "value"
    /\ pc \in {"done", "aborted"}
    /\ Len(log) > 0
    /\ log[Len(log)].x = "fetch"
    /\ log[Len(log)].ret = 0
    /\ new_val_len = val_len
    /\ Len(info.fmt) >= 2

\* C13: decoding is total: whatever the declared type and whatever bytes the
\* kernel returned (of any length, none at all or fewer than the type's
\* width among them), the read ends with a decoded value or with an error
\* string, and never aborts.
C13_DecodingTotal ==
    ReadDecoded =>
        /\ pc = "done"
        /\ result.kind \in {"ok", "err"}
        /\ result.kind = "err" => result.msg # ""

\* the return code of exchange e is a failure code
FailedExchange(e) ==
    IF e.x \in {"oidfmt", "describe"} THEN e.ret # 0 ELSE e.ret < 0

\* C14: in value, value_oid, value_as, value_oid_as, set_value and
\* description, an exchange that returns a failure code is the last one the
\* call issues (no later exchange, no repetition of the failed one, no
\* confirmation read after a failed write), and the call then returns the OS
\* error: it has returned it, or value_oid has returned it to value_oid_as,
\* which passes it on without a further exchange.
C14_FailureEndsCall ==
    /\ \A i \in 1..(Len(log) - 1) : ~FailedExchange(log[i])
    /\ (Len(log) > 0 /\ FailedExchange(log[Len(log)])) =>
          \/ pc = "done" /\ result = Err(errno_string)
          \/ /\ op \in {"value_as", "value_oid_as"}
             /\ pc = "extract"
             /\ val_enum = Err(errno_string)

\* C14, reached: set_value ended on its failed write exchange, the third
\* and last exchange of the call
C14_Witness ==
    /\ op = "set_value"
    /\ pc = "done"
    /\ Len(log) = 3
    /\ log[3].x = "write"
    /\ log[3].ret < 0
    /\ result = Err(errno_string)
    /\ kval = <<2, 13, 0, 0>>

\* the kinds of the exchanges the running call has issued, in order
ExchangeOrder == [i \in 1..Len(log) |-> log[i].x]

\* set_value(name, v) has returned Ok
SetValueSucceeded ==
    /\ op = "set_value"
    /\ pc = "done"
    /\ result.kind = "ok"

\* C15: a successful set_value of an Int has issued, in this order, name
\* resolution, metadata fetch, (type check,) write, and then a full fresh
\* read: name resolution again, metadata fetch again, size probe, data
\* fetch, every one of them successful.  The value it returns is the one
\* decoded from the bytes of that last fetch, which are the kernel's, with
\* the metadata of the second fetch; for a descriptor beginning with "IK"
\* that is a Temperature and not the argument.
C15_WriteThenFreshRead ==
    (SetValueSucceeded /\ arg.variant = "Int") =>
        /\ ExchangeOrder = <<"name2oid", "oidfmt", "write", "name2oid",
                             "oidfmt", "probe", "fetch">>
        /\ \A i \in 1..Len(log) : log[i].ret = 0
        /\ val = kval
        /\ info = CtlInfo(CtlTypeFromTag(ktag), kfmt, Kind)
        /\ result = value_oid_tail(info, val, val_len, new_val_len)
        /\ BeginsWithIK(kfmt) =>
              /\ result.value.variant = "Temperature"
              /\ result.value # arg

\* C15, reached: Int(3330) written to a parameter of descriptor "IK3", and
\* 3330 / 1000 kelvin returned
C15_Witness ==
    /\ SetValueSucceeded
    /\ arg = ScalarValue("Int", Num(FALSE, <<3330, 0>>))
    /\ kfmt = <<"I", "K", "3">>
    /\ Len(log) = 7
    /\ result = Ok(TemperatureValue(Num(FALSE, <<3330, 0>>), 1000))

\* set_value is running with a value of another variant than Int
SetOtherThanInt == op = "set_value" /\ arg.variant # "Int"

\* C16: a set_value whose value is of another variant than Int, and of the
\* declared type, issues no write exchange and no step of it changes the
\* stored value; after the type check it reads the name (name resolution,
\* metadata fetch, size probe, data fetch) and returns what that read gives:
\* the decoding of the kernel's bytes when the read succeeds, and otherwise
\* the read's own error, none for the missing write.
C16_OtherVariantsWriteNothing ==
    /\ [][SetOtherThanInt => kval' = kval]_vars
    /\ [](SetOtherThanInt =>
            /\ pc # "sv_write"
            /\ Len(Exchanges("write")) = 0)
    /\ []((SetOtherThanInt /\ pc = "done" /\ Len(log) > 2) =>
            /\ info.ctl_type = CtlTypeOfValue(arg)
            /\ \E n \in 3..6 :
                  ExchangeOrder = SubSeq(<<"name2oid", "oidfmt", "name2oid",
                                           "oidfmt", "probe", "fetch">>, 1, n)
            /\ IF FailedExchange(log[Len(log)])
               THEN result = Err(errno_string)
               ELSE /\ Len(log) = 6
                    /\ val = kval
                    /\ result = value_oid_tail(info, val, val_len,
                                               new_val_len))

\* C16, reached: set_value(name, Uint(1)) on a Uint parameter holding 3330
\* returned Ok(Uint(3330)), the value still stored
C16_Witness ==
    /\ SetOtherThanInt
    /\ pc = "done"
    /\ arg = ScalarValue("Uint", Num(FALSE, <<1, 0>>))
    /\ info.ctl_type = "Uint"
    /\ kval = <<2, 13, 0, 0>>
    /\ ExchangeOrder = <<"name2oid", "oidfmt", "name2oid", "oidfmt", "probe",
                         "fetch">>
    /\ result = Ok(ScalarValue("Uint", Num(FALSE, <<3330, 0>>)))

\* the temperature adapter has been applied to a value of declared type
\* codec.ty
AdapterApplied == codec.stage = "temperature"

\* C17, as claimed: the adapter returns a Temperature exactly for the
\* declared types Int, Uint, Long, Ulong, U64, U8, U16, S8, S16, S32 and
\* U32, and the error "no matching type" for every other one (Node, String,
\* S64, Struct).
C17_AdapterTypesWithoutS64 ==
    AdapterApplied =>
        IF codec.ty \in {"Int", "Uint", "Long", "Ulong", "U64", "U8", "U16",
                         "S8", "S16", "S32", "U32"}
        THEN /\ codec.out.kind = "ok"
             /\ codec.out.value.variant = "Temperature"
        ELSE codec.out = Err("No matching type for value")

\* C17, amended: the same with S64 among the types that give a Temperature;
\* the error is for Node, String and Struct.
C17_AdapterTypes ==
    AdapterApplied =>
        IF codec.ty \in {"Int", "S64", "Uint", "Long", "Ulong", "U64", "U8",
                         "U16", "S8", "S16", "S32", "U32"}
        THEN /\ codec.out.kind = "ok"
             /\ codec.out.value.variant = "Temperature"
        ELSE /\ codec.ty \in {"Node", "String", "Struct"}
             /\ codec.out = Err("No matching type for value")

\* C17, reached: a declared S64 of 3330 and descriptor "IK" gave 3330 / 10
C17_Witness ==
    /\ AdapterApplied
    /\ codec.ty = "S64"
    /\ codec.fmt = <<"I", "K">>
    /\ codec.out = Ok(TemperatureValue(Num(FALSE, <<3330, 0, 0, 0>>), 10))

\* C18: a read of a parameter whose masked type tag is 0, a tag with no
\* decode rule, none of its exchanges failing, ends by returning the error
\* "no matching type" to the caller.
C18_UnknownTagIsAnError ==
    ( /\ op = "value"
      /\ pc \in {"done", "aborted"}
      /\ ctltype_val(Kind) = 0
      /\ \A i \in 1..Len(log) : ~FailedExchange(log[i]) ) =>
        /\ pc = "done"
        /\ result = Err("No matching type for value")

\* name2oid has just returned Ok(oid)
Name2oidReturned ==
    /\ Len(log) > 0
    /\ log[Len(log)].x = "name2oid"
    /\ log[Len(log)].ret = 0

\* C19: an OID returned by a successful name resolution is not empty, has at
\* most CTL_MAXNAME integers, has exactly (filled length in bytes) / (width
\* of an integer) of them, and they are the first integers of the reply in
\* the same order, for replies of 1, 2, 3 and CTL_MAXNAME integers.
C19_OidOfReply ==
    Name2oidReturned =>
        /\ oid # <<>>
        /\ Len(oid) <= CTL_MAXNAME
        /\ Len(oid) * 4 = name2oid_reply.len
        /\ \A i \in 1..Len(oid) : oid[i] = name2oid_reply.res[i]

\* C19, reached: a reply of 12 bytes in a buffer of 24 integers gave <<1, 14, 1>>
C19_Witness ==
    /\ Name2oidReturned
    /\ name2oid_reply.len = 12
    /\ Len(name2oid_reply.res) = 24
    /\ oid = <<1, 14, 1>>

\* C20: with other processes writing the same Int parameter, each exchange
\* atomic, the value a successful set_value(name, Int(V)) returns is decoded
\* from bytes the parameter held at or after that call's own write: the
\* bytes of V, or those of a write that came after it, and not a value that
\* a write before the call's own had replaced.
C20_ReturnsValueSinceOwnWrite ==
    SetIntSucceeded =>
        /\ set_value_bytes(arg) \in since
        /\ val \in since
        /\ result = value_oid_tail(info, val, val_len, new_val_len)

\* C20, reached: set_value(name, Int(3330)) returned Int(-1), written by
\* another process after this call's write
C20_Witness ==
    /\ SetIntSucceeded
    /\ arg = ScalarValue("Int", Num(FALSE, <<3330, 0>>))
    /\ result = Ok(ScalarValue("Int", Num(TRUE, <<1, 0>>)))
    /\ since = {<<2, 13, 0, 0>>, <<255, 255, 255, 255>>}
    /\ nchg = 1

====
